---- MODULE Spec2Model ----
(***************************************************************************)
(* A model of the Thunderbird msgFilterRules.dat editor:                   *)
(*   msg_filter_parser.py  MsgFilterRule, MsgFilterParser                  *)
(*   main.py               FilterAdderApp                                  *)
(*                                                                         *)
(* Python strings are modelled as sequences of one-character strings, so   *)
(* that strip, split, substring search and string formatting are computed  *)
(* character by character, as the code computes them.                      *)
(***************************************************************************)
EXTENDS Naturals, Sequences, FiniteSets, TLC

(***************************************************************************)
(* Characters and string literals of the source.                           *)
(***************************************************************************)
QUOTE == "\""
NL == "\n"
CR == "\r"
EQ == "="

\* The characters str.strip() removes, among those the model's texts use.
Whitespace == {" ", "\t", NL, CR}

s_version == <<"v","e","r","s","i","o","n">>
s_logging == <<"l","o","g","g","i","n","g">>
s_name == <<"n","a","m","e">>
s_enabled == <<"e","n","a","b","l","e","d">>
s_type == <<"t","y","p","e">>
s_action == <<"a","c","t","i","o","n">>
s_actionValue == <<"a","c","t","i","o","n","V","a","l","u","e">>
s_condition == <<"c","o","n","d","i","t","i","o","n">>

s_yes == <<"y","e","s">>
s_17 == <<"1","7">>
s_MoveToFolder == <<"M","o","v","e"," ","t","o"," ","f","o","l","d","e","r">>
s_contains == <<",","c","o","n","t","a","i","n","s",",">>
s_OR == <<"O","R"," ">>
s_sepOR == <<" ","O","R"," ">>

s_from == <<"f","r","o","m">>
s_to == <<"t","o">>
s_cc == <<"c","c">>
s_subject == <<"s","u","b","j","e","c","t">>

(***************************************************************************)
(* Python string operations.                                               *)
(***************************************************************************)
\* The number of leading characters of s that lie in cs.
Lead(s, cs) ==
    CHOOSE k \in 0..Len(s) :
        /\ \A i \in 1..k : s[i] \in cs
        /\ (k = Len(s) \/ s[k + 1] \notin cs)

\* The number of trailing characters of s that lie in cs.
Trail(s, cs) ==
    CHOOSE k \in 0..Len(s) :
        /\ \A i \in (Len(s) - k + 1)..Len(s) : s[i] \in cs
        /\ (k = Len(s) \/ s[Len(s) - k] \notin cs)

\* str.strip(chars): every leading and every trailing character in cs goes.
StripChars(s, cs) ==
    LET t == SubSeq(s, Lead(s, cs) + 1, Len(s))
    IN  SubSeq(t, 1, Len(t) - Trail(t, cs))

\* str.strip()
Strip(s) == StripChars(s, Whitespace)

\* The position of the first c in s, 0 when there is none.
IndexOf(s, c) ==
    IF \E i \in 1..Len(s) : s[i] = c
    THEN CHOOSE i \in 1..Len(s) : s[i] = c /\ \A j \in 1..(i - 1) : s[j] # c
    ELSE 0

\* str.split(c): the pieces of s between the occurrences of c; one piece,
\* s itself, when there is none.
Split(s, c) ==
    LET at == SelectSeq([i \in 1..Len(s) |-> i], LAMBDA i : s[i] = c)
        cuts == <<0>> \o at \o <<Len(s) + 1>>
    IN  [k \in 1..(Len(cuts) - 1) |-> SubSeq(s, cuts[k] + 1, cuts[k + 1] - 1)]

\* `t in s` for strings: t occurs in s as a contiguous substring.
Contains(s, t) ==
    \E i \in 0..(Len(s) - Len(t)) : SubSeq(s, i + 1, i + Len(t)) = t

\* Text-mode reading with universal newlines: "\r\n" and "\r" become "\n".
ReadText(s) ==
    LET kept == SelectSeq([i \in 1..Len(s) |-> i],
                          LAMBDA i : ~(s[i] = NL /\ i > 1 /\ s[i - 1] = CR))
    IN  [j \in 1..Len(kept) |-> IF s[kept[j]] = CR THEN NL ELSE s[kept[j]]]

(***************************************************************************)
(* MsgFilterRule                                                           *)
(***************************************************************************)
MsgFilterRule(name, enabled, type, action, action_value, condition) ==
    [name |-> name, enabled |-> enabled, type |-> type, action |-> action,
     action_value |-> action_value, condition |-> condition]

\* MsgFilterRule(name=value): the other five fields take their defaults.
DefaultRule(name) == MsgFilterRule(name, s_yes, s_17, s_MoveToFolder, <<>>, <<>>)

\* A serializer that leaves the quotes out.
KeyLine_Unquoted(key, value) == key \o <<EQ>> \o value

\* f'key="{value}"'
KeyLine(key, value) == key \o <<EQ, QUOTE>> \o value \o <<QUOTE>>

\* MsgFilterRule.to_string: six lines joined by "\n".
to_string(rule) ==
    KeyLine(s_name, rule.name) \o <<NL>> \o
    KeyLine(s_enabled, rule.enabled) \o <<NL>> \o
    KeyLine(s_type, rule.type) \o <<NL>> \o
    KeyLine(s_action, rule.action) \o <<NL>> \o
    KeyLine(s_actionValue, rule.action_value) \o <<NL>> \o
    KeyLine(s_condition, rule.condition)

(***************************************************************************)
(* MsgFilterParser.parse_content                                           *)
(***************************************************************************)
\* The loop body of parse_content for one line.  st holds self.version,
\* self.logging, the local list rules and current_rule (<<>> for None, <<r>>
\* for an open rule r).
ParseLine(st, rawline) ==
    LET line == Strip(rawline)
        i == IndexOf(line, EQ)
        key == Strip(SubSeq(line, 1, i - 1))
        value == StripChars(Strip(SubSeq(line, i + 1, Len(line))), {QUOTE})
        cur == st.current_rule
    IN  IF line = <<>> THEN st
        ELSE IF i = 0 THEN st
        ELSE IF key = s_version THEN [st EXCEPT !.version = value]
        ELSE IF key = s_logging THEN [st EXCEPT !.logging = value]
        ELSE IF key = s_name
             THEN [st EXCEPT !.rules = st.rules \o cur,
                             !.current_rule = <<DefaultRule(value)>>]
        ELSE IF cur # <<>>
             THEN IF key = s_enabled
                  THEN [st EXCEPT !.current_rule = <<[cur[1] EXCEPT !.enabled = value]>>]
                  ELSE IF key = s_type
                  THEN [st EXCEPT !.current_rule = <<[cur[1] EXCEPT !.type = value]>>]
                  ELSE IF key = s_action
                  THEN [st EXCEPT !.current_rule = <<[cur[1] EXCEPT !.action = value]>>]
                  ELSE IF key = s_actionValue
                  THEN [st EXCEPT !.current_rule = <<[cur[1] EXCEPT !.action_value = value]>>]
                  ELSE IF key = s_condition
                  THEN [st EXCEPT !.current_rule = <<[cur[1] EXCEPT !.condition = value]>>]
                  ELSE st
        ELSE st

RECURSIVE ParseLines(_, _)
ParseLines(st, lines) ==
    IF lines = <<>> THEN st
    ELSE ParseLines(ParseLine(st, Head(lines)), Tail(lines))

\* A parser that forgets the rule still open at the end of the input.
parse_content_NoLast(ver, log, content) ==
    LET st == ParseLines([version |-> ver, logging |-> log, rules |-> <<>>,
                          current_rule |-> <<>>],
                         Split(Strip(content), NL))
    IN  [version |-> st.version, logging |-> st.logging, rules |-> st.rules]

\* A parser that stops reading at the first line that has no '='.
parse_content_StopAtJunk(ver, log, content) ==
    LET lines == Split(Strip(content), NL)
        bad == {i \in 1..Len(lines) : IndexOf(lines[i], EQ) = 0}
        n == IF bad = {} THEN Len(lines)
             ELSE (CHOOSE i \in bad : \A j \in bad : i <= j) - 1
        st == ParseLines([version |-> ver, logging |-> log, rules |-> <<>>,
                          current_rule |-> <<>>],
                         SubSeq(lines, 1, n))
    IN  [version |-> st.version, logging |-> st.logging,
         rules |-> st.rules \o st.current_rule]

\* A parser that takes version and logging only from the lines in front of
\* the first rule.
parse_content_HeaderOnly(ver, log, content) ==
    LET lines == Split(Strip(content), NL)
        blank == [version |-> ver, logging |-> log, rules |-> <<>>,
                  current_rule |-> <<>>]
        opens == {i \in 1..Len(lines) :
                      ParseLine(blank, lines[i]).current_rule # <<>>}
        n == IF opens = {} THEN Len(lines)
             ELSE (CHOOSE i \in opens : \A j \in opens : i <= j) - 1
        hdr == ParseLines(blank, SubSeq(lines, 1, n))
        st == ParseLines(blank, lines)
    IN  [version |-> hdr.version, logging |-> hdr.logging,
         rules |-> st.rules \o st.current_rule]

\* parse_content on a parser whose fields are ver and log: the fields after
\* the call.  self.rules is replaced; version and logging are assigned only
\* by the lines that carry them.
parse_content(ver, log, content) ==
    LET st == ParseLines([version |-> ver, logging |-> log, rules |-> <<>>,
                          current_rule |-> <<>>],
                         Split(Strip(content), NL))
    IN  [version |-> st.version, logging |-> st.logging,
         rules |-> st.rules \o st.current_rule]

(***************************************************************************)
(* MsgFilterParser.write_file: the text written to the file.               *)
(***************************************************************************)
RECURSIVE RulesText(_)
RulesText(rs) ==
    IF rs = <<>> THEN <<>>
    ELSE to_string(Head(rs)) \o <<NL>> \o RulesText(Tail(rs))

\* A writer that emits the version line also when version is empty.
write_file_AlwaysVersion(ver, log, rs) ==
    KeyLine(s_version, ver) \o <<NL>> \o
    (IF log # <<>> THEN KeyLine(s_logging, log) \o <<NL>> ELSE <<>>) \o
    RulesText(rs)

\* A writer that emits the logging line before the version line.
write_file_LoggingFirst(ver, log, rs) ==
    (IF log # <<>> THEN KeyLine(s_logging, log) \o <<NL>> ELSE <<>>) \o
    (IF ver # <<>> THEN KeyLine(s_version, ver) \o <<NL>> ELSE <<>>) \o
    RulesText(rs)

write_file(ver, log, rs) ==
    (IF ver # <<>> THEN KeyLine(s_version, ver) \o <<NL>> ELSE <<>>) \o
    (IF log # <<>> THEN KeyLine(s_logging, log) \o <<NL>> ELSE <<>>) \o
    RulesText(rs)

(***************************************************************************)
(* Lookup, condition merge, rule creation.                                 *)
(***************************************************************************)
\* find_rule_by_name: the index of the first rule with that name, 0 for None.
find_rule_by_name(rs, name) ==
    IF \E i \in 1..Len(rs) : rs[i].name = name
    THEN CHOOSE i \in 1..Len(rs) :
             rs[i].name = name /\ \A j \in 1..(i - 1) : rs[j].name # name
    ELSE 0

\* f'({header_field},contains,{value})'
Term(header_field, value) ==
    <<"(">> \o header_field \o s_contains \o value \o <<")">>

\* A merge that writes the leading operator anew on every change.
MergeCondition_LeadingOR(cond, header_field, value) ==
    IF cond = <<>> THEN s_OR \o Term(header_field, value)
    ELSE IF Contains(cond, Term(header_field, value)) THEN cond
    ELSE s_OR \o SubSeq(cond, IndexOf(cond, "("), Len(cond)) \o s_sepOR
         \o Term(header_field, value)

\* A merge without the check for a term that is already there.
MergeCondition_NoCheck(cond, header_field, value) ==
    IF cond = <<>> THEN s_OR \o Term(header_field, value)
    ELSE cond \o s_sepOR \o Term(header_field, value)

\* A merge that puts the new term in front of the ones already there.
MergeCondition_InFront(cond, header_field, value) ==
    IF cond = <<>> THEN s_OR \o Term(header_field, value)
    ELSE IF Contains(cond, Term(header_field, value)) THEN cond
    ELSE s_OR \o Term(header_field, value) \o <<" ">> \o cond

\* The condition add_condition_to_rule leaves in a rule whose condition was
\* cond.
MergeCondition(cond, header_field, value) ==
    IF cond = <<>> THEN s_OR \o Term(header_field, value)
    ELSE IF Contains(cond, Term(header_field, value)) THEN cond
    ELSE cond \o s_sepOR \o Term(header_field, value)

\* An add_condition_to_rule that creates the rule it does not find.
add_condition_to_rule_Create(rs, rule_name, header_field, value) ==
    LET i == find_rule_by_name(rs, rule_name)
    IN  IF i = 0
        THEN [rules |-> Append(rs, MsgFilterRule(rule_name, s_yes, s_17,
                                   s_MoveToFolder, <<>>,
                                   s_OR \o Term(header_field, value))),
              ret |-> "True"]
        ELSE [rules |-> [rs EXCEPT ![i].condition =
                             MergeCondition(@, header_field, value)],
              ret |-> "True"]

\* add_condition_to_rule on the rule list rs: the list after the call and the
\* value returned.
add_condition_to_rule(rs, rule_name, header_field, value) ==
    LET i == find_rule_by_name(rs, rule_name)
    IN  IF i = 0 THEN [rules |-> rs, ret |-> "False"]
        ELSE [rules |-> [rs EXCEPT ![i].condition =
                             MergeCondition(@, header_field, value)],
              ret |-> "True"]

\* A new rule whose condition lacks the leading operator.
NewRule_NoOperator(name, header_field, value, action_value) ==
    MsgFilterRule(name, s_yes, s_17, s_MoveToFolder, action_value,
                  Term(header_field, value))

\* The rule create_new_rule builds.
NewRule(name, header_field, value, action_value) ==
    MsgFilterRule(name, s_yes, s_17, s_MoveToFolder, action_value,
                  s_OR \o Term(header_field, value))

\* An insertion at the front of the list.
AppendRule_Front(rs, rule) == <<rule>> \o rs

\* self.rules.append(rule)
AppendRule(rs, rule) == Append(rs, rule)

\* create_new_rule on the rule list rs: the list after the call.
create_new_rule(rs, name, header_field, value, action_value) ==
    AppendRule(rs, NewRule(name, header_field, value, action_value))

(***************************************************************************)
(* FilterAdderApp                                                          *)
(***************************************************************************)
\* str.lower() on the letters the header fields are spelled with.
Upper == <<"F","R","O","M","T","C","S","U","B","J","E">>
Lower == <<"f","r","o","m","t","c","s","u","b","j","e">>

LowerChar(c) ==
    IF \E k \in 1..Len(Upper) : Upper[k] = c
    THEN Lower[CHOOSE k \in 1..Len(Upper) : Upper[k] = c]
    ELSE c

lower(s) == [i \in 1..Len(s) |-> LowerChar(s[i])]

valid_fields == {s_from, s_to, s_cc, s_subject}

validate_header_field(header_field) == lower(header_field) \in valid_fields

(***************************************************************************)
(* State.                                                                  *)
(***************************************************************************)
VARIABLES
    version,    \* MsgFilterParser.version
    logging,    \* MsgFilterParser.logging
    rules,      \* MsgFilterParser.rules
    file,       \* the rules file: <<>> when it does not exist, else <<text>>
    backups,    \* the backup copies made, oldest first
    pc,         \* the position inside process_filter_rules, or the phase
    call,       \* the last call: operation, arguments, returned value
    prev,       \* the process_filter_rules call completed before `call`
    runs,       \* process_filter_rules calls started
    orig,       \* the Document or text a round trip or a parse started from
    file2       \* a second rules file, at a path other than the default one

vars ==
    <<version, logging, rules, file, backups, pc, call, prev, runs, orig,
      file2>>

\* call.pre is self.rules as the call found it; call.backup tells how the
\* backup copy of a process_filter_rules call went ("" while not attempted);
\* call.file_path is its file_path argument ("" for None, the default path).
NoCall ==
    [op |-> "", rule_name |-> <<>>, header_field |-> <<>>, value |-> <<>>,
     dest_folder |-> <<>>, ret |-> "", idx |-> 0, pre |-> <<>>,
     backup |-> "", file_path |-> ""]

NoOrig == [kind |-> "", version |-> <<>>, logging |-> <<>>, rules |-> <<>>,
           text |-> <<>>]

\* prev.file is the file as that call left it.
NoPrev == [call |-> NoCall, file |-> <<>>]

(***************************************************************************)
(* Bounds and input sets.                                                  *)
(***************************************************************************)
MaxRules == 2
MaxCondLen == 38
MaxRuns == 2

\* Rule names.
s_A == <<"A">>
s_B == <<"B">>
Names == {s_A, s_B}

\* add_condition_to_rule takes any string as the header field: a real one,
\* the empty one and one that is a parenthesis.
Fields == {s_to, <<>>, <<"(">>}
Values == {<<"a">>, <<"b">>}
\* create_new_rule is handed a header field that passed validation.
HeaderFields == {s_to}
Folders == {<<"F">>}

cond_and == <<"A","N","D"," ">> \o Term(s_to, <<"a">>)

\* Texts handed to parse_content.
text_empty == <<>>
text_one ==
    KeyLine(s_version, <<"9">>) \o <<NL>> \o KeyLine(s_logging, <<"n","o">>)
    \o <<NL>>
    \o to_string(MsgFilterRule(s_A, <<"n","o">>, s_17, s_MoveToFolder,
                               <<"G">>, cond_and)) \o <<NL>>
text_dup ==
    KeyLine(s_name, s_B) \o <<NL>> \o KeyLine(s_name, s_A) \o <<NL>>
    \o KeyLine(s_name, s_A) \o <<NL>> \o KeyLine(s_actionValue, <<"G">>)
    \o <<NL>>
Texts == {text_empty, text_one, text_dup}

(***************************************************************************)
(* The parser's operations, called directly on one MsgFilterParser.        *)
(***************************************************************************)
Init ==
    /\ version = <<>>
    /\ logging = <<>>
    /\ rules = <<>>
    /\ file = <<>>
    /\ backups = <<>>
    /\ pc = "idle"
    /\ call = NoCall
    /\ prev = NoPrev
    /\ runs = 0
    /\ orig = NoOrig
    /\ file2 = <<>>

\* An edit session parses once, right after construction, and then edits.
ParseContent(content) ==
    LET p == parse_content(version, logging, content)
    IN  /\ call = NoCall
        /\ version' = p.version
        /\ logging' = p.logging
        /\ rules' = p.rules
        /\ call' = [NoCall EXCEPT !.op = "parse_content", !.ret = "rules",
                                  !.pre = rules]
        /\ UNCHANGED <<file, backups, pc, prev, runs, orig, file2>>

FindRuleByName(name) ==
    LET i == find_rule_by_name(rules, name)
    IN  /\ call' = [NoCall EXCEPT !.op = "find_rule_by_name",
                                  !.rule_name = name,
                                  !.ret = IF i = 0 THEN "None" ELSE "rule",
                                  !.idx = i,
                                  !.pre = rules]
        /\ UNCHANGED <<version, logging, rules, file, backups, pc, prev, runs,
                       orig, file2>>

AddConditionToRule(rule_name, header_field, value) ==
    LET r == add_condition_to_rule(rules, rule_name, header_field, value)
    IN  /\ \A i \in 1..Len(r.rules) : Len(r.rules[i].condition) <= MaxCondLen
        /\ rules' = r.rules
        /\ call' = [NoCall EXCEPT !.op = "add_condition_to_rule",
                                  !.rule_name = rule_name,
                                  !.header_field = header_field,
                                  !.value = value,
                                  !.ret = r.ret,
                                  !.pre = rules]
        /\ UNCHANGED <<version, logging, file, backups, pc, prev, runs, orig,
                       file2>>

CreateNewRule(name, header_field, value, action_value) ==
    /\ Len(rules) < MaxRules
    /\ rules' = create_new_rule(rules, name, header_field, value, action_value)
    /\ call' = [NoCall EXCEPT !.op = "create_new_rule",
                              !.rule_name = name,
                              !.header_field = header_field,
                              !.value = value,
                              !.dest_folder = action_value,
                              !.ret = "rule",
                              !.idx = Len(rules'),
                              !.pre = rules]
    /\ UNCHANGED <<version, logging, file, backups, pc, prev, runs, orig,
                   file2>>

Next ==
    \/ \E t \in Texts : ParseContent(t)
    \/ \E n \in Names : FindRuleByName(n)
    \/ \E n \in Names, f \in Fields, v \in Values : AddConditionToRule(n, f, v)
    \/ \E n \in Names, f \in HeaderFields, v \in Values, d \in Folders :
           CreateNewRule(n, f, v, d)

Spec == Init /\ [][Next]_vars

(***************************************************************************)
(* FilterAdderApp.process_filter_rules, step by step, on one file.  The    *)
(* app keeps one MsgFilterParser for all its calls.  Of the I/O failures   *)
(* only the backup copy's is modelled.                                     *)
(***************************************************************************)
s_QA == <<QUOTE, "A", QUOTE>>
s_TO == <<"T","O">>
s_body == <<"b","o","d","y">>

AppNames == {s_A, s_QA}
AppFields == {s_to, s_TO, s_body}
AppValues == {<<"a">>, <<"a", NL, "b">>}

\* The rules file before the first call: missing, empty, or holding a rule.
AppFiles == {<<>>, <<text_empty>>, <<text_one>>}

InitApp ==
    /\ version = <<>>
    /\ logging = <<>>
    /\ rules = <<>>
    /\ file \in AppFiles
    /\ backups = <<>>
    /\ pc = "idle"
    /\ call = NoCall
    /\ prev = NoPrev
    /\ runs = 0
    /\ orig = NoOrig
    /\ file2 = <<>>

\* A workflow that goes on whatever backup_file returned.
AfterBackup_Ignored(ok) == "parse"

\* Where process_filter_rules goes after backup_file returned ok.
AfterBackup(ok) == IF ok THEN "parse" ELSE "idle"

\* Where it goes after its two checks: the header field, then the file.
AfterChecks(header_field, f) ==
    IF ~validate_header_field(header_field) THEN "idle"
    ELSE IF f = <<>> THEN "idle"
    ELSE "backup"

\* The file a call's file_path names.
FileAt(file_path) == IF file_path = "" THEN file ELSE file2

ProcessStartAt(file_path, rule_name, header_field, value, dest_folder) ==
    /\ pc = "idle"
    /\ runs < MaxRuns
    /\ runs' = runs + 1
    /\ prev' = IF call.op = "process_filter_rules"
               THEN [call |-> call, file |-> FileAt(call.file_path)]
               ELSE prev
    /\ pc' = AfterChecks(header_field, FileAt(file_path))
    /\ call' = [NoCall EXCEPT !.op = "process_filter_rules",
                              !.file_path = file_path,
                              !.rule_name = rule_name,
                              !.header_field = header_field,
                              !.value = value,
                              !.dest_folder = dest_folder,
                              !.ret = IF pc' = "idle" THEN "False" ELSE ""]
    /\ UNCHANGED <<version, logging, rules, file, backups, orig, file2>>

\* process_filter_rules without a file_path: the default path.
ProcessStart(rule_name, header_field, value, dest_folder) ==
    ProcessStartAt("", rule_name, header_field, value, dest_folder)

\* backup_file: shutil.copy2 succeeds or raises.
ProcessBackup ==
    /\ pc = "backup"
    /\ \E ok \in BOOLEAN :
        /\ backups' = IF ok THEN Append(backups, FileAt(call.file_path)[1])
                      ELSE backups
        /\ pc' = AfterBackup(ok)
        /\ call' = [call EXCEPT !.backup = IF ok THEN "ok" ELSE "failed",
                                !.ret = IF pc' = "idle" THEN "False" ELSE ""]
    /\ UNCHANGED <<version, logging, rules, file, prev, runs, orig, file2>>

\* self.parser.parse_file(file_path)
ProcessParse ==
    LET p == parse_content(version, logging,
                           ReadText(FileAt(call.file_path)[1]))
    IN  /\ pc = "parse"
        /\ version' = p.version
        /\ logging' = p.logging
        /\ rules' = p.rules
        /\ pc' = "edit"
        /\ UNCHANGED <<file, backups, call, prev, runs, orig, file2>>

\* find_rule_by_name, then add_condition_to_rule or create_new_rule.
ProcessEdit ==
    LET existing_rule == find_rule_by_name(rules, call.rule_name)
        r == add_condition_to_rule(rules, call.rule_name, call.header_field,
                                   call.value)
    IN  /\ pc = "edit"
        /\ IF existing_rule # 0
           THEN /\ rules' = r.rules
                /\ pc' = IF r.ret = "True" THEN "write" ELSE "idle"
                /\ call' = [call EXCEPT !.pre = rules,
                                        !.ret = IF r.ret = "True" THEN ""
                                                ELSE "False"]
           ELSE /\ rules' = create_new_rule(rules, call.rule_name,
                                            call.header_field, call.value,
                                            call.dest_folder)
                /\ pc' = "write"
                /\ call' = [call EXCEPT !.pre = rules]
        /\ UNCHANGED <<version, logging, file, backups, prev, runs, orig,
                       file2>>

\* self.parser.write_file(file_path); return True
ProcessWrite ==
    /\ pc = "write"
    /\ IF call.file_path = ""
       THEN file' = <<write_file(version, logging, rules)>> /\ file2' = file2
       ELSE file2' = <<write_file(version, logging, rules)>> /\ file' = file
    /\ pc' = "idle"
    /\ call' = [call EXCEPT !.ret = "True"]
    /\ UNCHANGED <<version, logging, rules, backups, prev, runs, orig>>

NextApp ==
    \/ \E n \in AppNames, f \in AppFields, v \in AppValues, d \in Folders :
           ProcessStart(n, f, v, d)
    \/ ProcessBackup
    \/ ProcessParse
    \/ ProcessEdit
    \/ ProcessWrite

SpecApp == InitApp /\ [][NextApp]_vars

(***************************************************************************)
(* One FilterAdderApp whose process_filter_rules calls name a file each:   *)
(* the file at the default path or a second file.                          *)
(***************************************************************************)
\* The file_path argument: None, or the path of the second file.
Paths == {"", "second"}

InitAppFiles ==
    /\ version = <<>>
    /\ logging = <<>>
    /\ rules = <<>>
    /\ file = <<text_one>>
    /\ file2 \in {<<text_empty>>, <<text_dup>>}
    /\ backups = <<>>
    /\ pc = "idle"
    /\ call = NoCall
    /\ prev = NoPrev
    /\ runs = 0
    /\ orig = NoOrig

NextAppFiles ==
    \/ \E p \in Paths, n \in Names, f \in HeaderFields, v \in Values,
          d \in Folders : ProcessStartAt(p, n, f, v, d)
    \/ ProcessBackup
    \/ ProcessParse
    \/ ProcessEdit
    \/ ProcessWrite

SpecAppFiles == InitAppFiles /\ [][NextAppFiles]_vars

(***************************************************************************)
(* Round trips: a Document written and parsed back by a new parser, and a  *)
(* text in the canonical layout parsed by a new parser and written back.   *)
(***************************************************************************)
\* The values the Documents and texts are built from.
RTValues ==
    {<<>>, <<"a">>, <<" ">>, <<"a", " ">>, <<EQ>>, <<QUOTE, "a">>,
     <<"a", QUOTE, "b">>, <<"a", NL, "b">>, <<"a", CR, "b">>}

RuleNames == <<"A", "B", "C", "D">>

BaseRule(i) == NewRule(<<RuleNames[i]>>, s_to, <<"a">>, <<"F">>)

\* A well-formed Document of n rules.
BaseDoc(n) ==
    [version |-> <<"9">>, logging |-> <<"n","o">>,
     rules |-> [i \in 1..n |-> BaseRule(i)]]

FieldNames ==
    {"name", "enabled", "type", "action", "action_value", "condition"}

\* The places of a Document of n rules that hold a value.
Places(n) ==
    {<<0, "version">>, <<0, "logging">>} \cup ((1..n) \X FieldNames)

\* The Document d with value v at place p.
SetAt(d, p, v) ==
    IF p[1] = 0
    THEN [d EXCEPT ![p[2]] = v]
    ELSE [d EXCEPT !.rules[p[1]][p[2]] = v]

\* The Documents that differ from a well-formed one in at most two values.
Docs ==
    {SetAt(SetAt(BaseDoc(n[1]), n[2], v1), n[3], v2) :
        n \in {m \in (0..MaxRules) \X Places(MaxRules) \X Places(MaxRules) :
                   m[2] \in Places(m[1]) /\ m[3] \in Places(m[1])},
        v1 \in RTValues, v2 \in RTValues}

\* All values of a Document.
DocValues(d) ==
    {d.version, d.logging}
    \cup {d.rules[i][k] : i \in 1..Len(d.rules), k \in FieldNames}

HasChar(d, cs) == \E v \in DocValues(d) : \E j \in 1..Len(v) : v[j] \in cs

\* The canonical layout: a version line, a logging line, six lines a rule.
CanonicalText(d) ==
    KeyLine(s_version, d.version) \o <<NL>> \o
    KeyLine(s_logging, d.logging) \o <<NL>> \o RulesText(d.rules)

InitRoundTrip ==
    /\ file2 = <<>>
    /\ backups = <<>>
    /\ call = NoCall
    /\ prev = NoPrev
    /\ runs = 0
    /\ \E d \in Docs :
        \/ /\ pc = "doc"
           /\ version = d.version
           /\ logging = d.logging
           /\ rules = d.rules
           /\ file = <<>>
           /\ orig = [kind |-> "doc", version |-> d.version,
                      logging |-> d.logging, rules |-> d.rules,
                      text |-> <<>>]
        \/ /\ ~HasChar(d, {NL, CR})
           /\ pc = "text"
           /\ version = <<>>
           /\ logging = <<>>
           /\ rules = <<>>
           /\ file = <<CanonicalText(d)>>
           /\ orig = [kind |-> "text", version |-> d.version,
                      logging |-> d.logging, rules |-> d.rules,
                      text |-> CanonicalText(d)]

\* MsgFilterParser.write_file on the Document held.
WriteFile ==
    /\ pc \in {"doc", "parsed"}
    /\ file' = <<write_file(version, logging, rules)>>
    /\ pc' = IF pc = "doc" THEN "written" ELSE "rewritten"
    /\ UNCHANGED <<version, logging, rules, backups, call, prev, runs, orig,
                   file2>>

\* MsgFilterParser().parse_file: a new parser reads the file.
ParseFile ==
    LET p == parse_content(<<>>, <<>>, ReadText(file[1]))
    IN  /\ pc \in {"written", "text"}
        /\ version' = p.version
        /\ logging' = p.logging
        /\ rules' = p.rules
        /\ pc' = IF pc = "written" THEN "reparsed" ELSE "parsed"
        /\ UNCHANGED <<file, backups, call, prev, runs, orig, file2>>

NextRoundTrip == WriteFile \/ ParseFile

SpecRoundTrip == InitRoundTrip /\ [][NextRoundTrip]_vars

(***************************************************************************)
(* parse_content on texts put together from lines, by a new parser and     *)
(* then again by the same parser.                                          *)
(***************************************************************************)
MaxLines == 3
MaxParses == 2

\* The lines the texts are made of: quoted and unquoted values, blanks
\* around key and value, doubled quotes, '=' inside a value, a key in another
\* case, a line without '=', an empty line.
LinePool ==
    {KeyLine(s_name, s_A),
     s_name \o <<EQ>> \o s_B,
     KeyLine(s_enabled, <<"n","o">>),
     s_condition \o <<EQ, QUOTE, QUOTE, "x", QUOTE, QUOTE>>,
     KeyLine(s_version, <<"9">>),
     <<" ">> \o s_version \o <<" ", EQ, " ", "8", " ">>,
     KeyLine(s_logging, s_yes),
     KeyLine(s_actionValue, <<"G", EQ, "H">>),
     KeyLine(<<"N","a","m","e">>, <<"C">>),
     <<"j","u","n","k">>,
     <<>>}

\* What a text starts with: nothing, a rule with one of its field lines, or
\* a field line and a line without '=' in front of any rule.
Heads ==
    {<<>>,
     <<KeyLine(s_name, <<"Z">>), KeyLine(s_type, <<"3">>)>>,
     <<KeyLine(s_condition, <<"c">>), <<"n","o","t","e">>>>}

\* "\n".join(lines)
RECURSIVE JoinLines(_)
JoinLines(lines) ==
    IF lines = <<>> THEN <<>>
    ELSE IF Len(lines) = 1 THEN lines[1]
    ELSE lines[1] \o <<NL>> \o JoinLines(Tail(lines))

InputTexts ==
    {JoinLines(h \o ls) :
        h \in Heads, ls \in UNION {[1..n -> LinePool] : n \in 0..MaxLines}}

\* The texts a parser is handed after its first.
AgainTexts ==
    {text_empty, KeyLine(s_name, s_B) \o <<NL>>,
     KeyLine(s_version, <<"7">>) \o <<NL>> \o KeyLine(s_name, s_A) \o <<NL>>}

\* orig holds the text handed to parse_content and the parser's version and
\* logging as the call found them.
InitParse ==
    /\ version = <<>>
    /\ logging = <<>>
    /\ rules = <<>>
    /\ file = <<>>
    /\ file2 = <<>>
    /\ backups = <<>>
    /\ pc = "input"
    /\ call = NoCall
    /\ prev = NoPrev
    /\ runs = 0
    /\ \E t \in InputTexts : orig = [NoOrig EXCEPT !.kind = "text", !.text = t]

\* MsgFilterParser().parse_content(text)
ParseInput ==
    LET p == parse_content(version, logging, orig.text)
    IN  /\ pc = "input"
        /\ version' = p.version
        /\ logging' = p.logging
        /\ rules' = p.rules
        /\ pc' = "parsed"
        /\ runs' = runs + 1
        /\ UNCHANGED <<file, backups, call, prev, orig, file2>>

\* parse_content(text) once more on the same parser.
ParseAgain(text) ==
    LET p == parse_content(version, logging, text)
    IN  /\ pc = "parsed"
        /\ runs < MaxParses
        /\ version' = p.version
        /\ logging' = p.logging
        /\ rules' = p.rules
        /\ orig' = [NoOrig EXCEPT !.kind = "text", !.version = version,
                                  !.logging = logging, !.text = text]
        /\ runs' = runs + 1
        /\ UNCHANGED <<file, backups, pc, call, prev, file2>>

NextParse ==
    \/ ParseInput
    \/ \E t \in AgainTexts : ParseAgain(t)

SpecParse == InitParse /\ [][NextParse]_vars

(***************************************************************************)
(* Properties.                                                             *)
(***************************************************************************)
\* The rule the last call names, in the list the call found (0: none).
Target == find_rule_by_name(call.pre, call.rule_name)

NoRuleNamed(rs, name) == \A i \in 1..Len(rs) : rs[i].name # name

\* C1: a merge request for a term the rule's condition already contains
\* returns True and changes nothing; after any successful merge the term is
\* in the condition, and the same request once more returns True and leaves
\* the rule list as it is (also when the condition was empty before).
C1_IdempotentMerge ==
    call.op = "add_condition_to_rule" =>
        LET t == Term(call.header_field, call.value)
        IN  /\ (Target # 0 /\ Contains(call.pre[Target].condition, t))
                   => (call.ret = "True" /\ rules = call.pre)
            /\ call.ret = "True"
                   => /\ Contains(rules[Target].condition, t)
                      /\ add_condition_to_rule(rules, call.rule_name,
                                               call.header_field, call.value)
                             = [rules |-> rules, ret |-> "True"]

\* C1: a merge request that found its term among several and changed nothing.
C1_Witness ==
    /\ call.op = "add_condition_to_rule"
    /\ call.ret = "True"
    /\ rules = call.pre
    /\ Len(rules[Target].condition)
           > Len(s_OR \o Term(call.header_field, call.value))

\* The rule's condition after two successive add_condition_to_rule calls on
\* the same rule, the first of which found the condition empty.
FirstThenSecond ==
    /\ call.op = "add_condition_to_rule"
    /\ call.ret = "True"
    /\ call.pre[Target].condition = <<>>
    /\ call'.op = "add_condition_to_rule"
    /\ call'.rule_name = call.rule_name

\* C4 as claimed: (f1,v1) then (f2,v2) on an empty condition always yields
\* 'OR (f1,contains,v1) OR (f2,contains,v2)'.
C4_AnyTwoPairs ==
    [][FirstThenSecond =>
           rules'[Target].condition =
               s_OR \o Term(call.header_field, call.value) \o s_sepOR
               \o Term(call'.header_field, call'.value)]_vars

\* C4, amended: (f1,v1) then (f2,v2) on an empty condition yields
\* 'OR (f1,contains,v1) OR (f2,contains,v2)' unless the second term occurs in
\* 'OR (f1,contains,v1)', and then the condition stays as the first call left
\* it; and whenever a merge changes a condition that was not empty, what was
\* there comes first and ' OR ' and the new term come last.
C4_TermOrder ==
    [][/\ FirstThenSecond =>
              LET c1 == s_OR \o Term(call.header_field, call.value)
                  t2 == Term(call'.header_field, call'.value)
              IN  rules'[Target].condition =
                      IF Contains(c1, t2) THEN c1 ELSE c1 \o s_sepOR \o t2
       /\ (call'.op = "add_condition_to_rule" /\ rules' # rules) =>
              \E i \in 1..Len(rules) :
                  /\ rules' = [rules EXCEPT ![i].condition = rules'[i].condition]
                  /\ rules'[i].condition =
                         (IF rules[i].condition = <<>> THEN s_OR
                          ELSE rules[i].condition \o s_sepOR)
                         \o Term(call'.header_field, call'.value)]_vars

\* C4: two different pairs were merged into a condition that was empty.
C4_Witness ==
    /\ call.op = "add_condition_to_rule"
    /\ Target # 0
    /\ \E f1 \in Fields, v1 \in Values :
        /\ <<f1, v1>> # <<call.header_field, call.value>>
        /\ call.pre[Target].condition = s_OR \o Term(f1, v1)
        /\ rules[Target].condition =
               s_OR \o Term(f1, v1) \o s_sepOR
               \o Term(call.header_field, call.value)

\* A rule without its condition: what no call may change.
Fixed(rule) == [rule EXCEPT !.condition = <<>>]

\* C6: find_rule_by_name, add_condition_to_rule and create_new_rule keep
\* every rule at its position (add_condition_to_rule may change a condition,
\* the others change no rule); only create_new_rule lengthens the list, by
\* one rule, at the last position.
C6_AppendOnly ==
    call.op \in {"find_rule_by_name", "add_condition_to_rule",
                 "create_new_rule"} =>
        /\ Len(rules) >= Len(call.pre)
        /\ \A i \in 1..Len(call.pre) : Fixed(rules[i]) = Fixed(call.pre[i])
        /\ call.op # "add_condition_to_rule"
               => SubSeq(rules, 1, Len(call.pre)) = call.pre
        /\ IF call.op = "create_new_rule"
           THEN /\ Len(rules) = Len(call.pre) + 1
                /\ rules[Len(rules)].name = call.rule_name
                /\ rules[Len(rules)].action_value = call.dest_folder
           ELSE Len(rules) = Len(call.pre)

\* C6: a rule was created in a list that held other rules.
C6_Witness ==
    /\ call.op = "create_new_rule"
    /\ Len(call.pre) >= 1
    /\ Fixed(call.pre[1]) # Fixed(rules[Len(rules)])

\* C7: in a Document with no rule named N, find_rule_by_name(N) returns
\* None; after create_new_rule(N, field, value, actionValue) exactly one rule
\* is named N, it has enabled 'yes', type '17', action 'Move to folder', the
\* given actionValue and the condition 'OR (field,contains,value)', and
\* find_rule_by_name(N) returns it.
C7_FindOrCreate ==
    /\ (call.op = "find_rule_by_name" /\ NoRuleNamed(call.pre, call.rule_name))
           => (call.ret = "None" /\ call.idx = 0)
    /\ (call.op = "create_new_rule" /\ NoRuleNamed(call.pre, call.rule_name))
           => /\ Cardinality({i \in 1..Len(rules) :
                                  rules[i].name = call.rule_name}) = 1
              /\ rules[call.idx] =
                     [name |-> call.rule_name,
                      enabled |-> <<"y","e","s">>,
                      type |-> <<"1","7">>,
                      action |-> <<"M","o","v","e"," ","t","o"," ",
                                   "f","o","l","d","e","r">>,
                      action_value |-> call.dest_folder,
                      condition |-> <<"O","R"," ","(">> \o call.header_field
                                    \o <<",","c","o","n","t","a","i","n","s",",">>
                                    \o call.value \o <<")">>]
              /\ find_rule_by_name(rules, call.rule_name) = call.idx

\* C7: a rule was created under a name that no rule of the list had.
C7_Witness ==
    /\ call.op = "create_new_rule"
    /\ Len(call.pre) >= 1
    /\ NoRuleNamed(call.pre, call.rule_name)

\* C9: add_condition_to_rule for a name that no rule has returns False and
\* leaves the rule list as it was.
C9_RuleNotFound ==
    (call.op = "add_condition_to_rule" /\ NoRuleNamed(call.pre, call.rule_name))
        => (call.ret = "False" /\ rules = call.pre)

\* C9: add_condition_to_rule missed its rule in a list that holds rules.
C9_Witness ==
    /\ call.op = "add_condition_to_rule"
    /\ call.ret = "False"
    /\ Len(rules) >= 1

SameArguments(c, d) ==
    /\ c.rule_name = d.rule_name
    /\ c.header_field = d.header_field
    /\ c.value = d.value
    /\ c.dest_folder = d.dest_folder

\* C2: when process_filter_rules has succeeded and is called again with the
\* same arguments, the file is afterwards what the first call left.
C2_SecondRunSameFile ==
    (/\ pc = "idle"
     /\ call.op = "process_filter_rules"
     /\ prev.call.op = "process_filter_rules"
     /\ prev.call.ret = "True"
     /\ SameArguments(prev.call, call))
        => file = prev.file

\* C5: the file is written only after this call's backup copy succeeded, and
\* the copy holds the file as it was; the parser's state changes only after
\* it; a failed copy ends the call with False, the file and the parser's
\* state untouched.
C5_BackupPrecedesMutation ==
    [][/\ file' # file =>
              /\ call.backup = "ok"
              /\ backups # <<>>
              /\ <<backups[Len(backups)]>> = file
       /\ <<version, logging, rules>>' # <<version, logging, rules>> =>
              call.backup = "ok"
       /\ (call'.backup = "failed" /\ call' # call) =>
              /\ pc' = "idle"
              /\ call'.ret = "False"
              /\ UNCHANGED <<file, backups, version, logging, rules>>]_vars

\* C5: a call wrote the file after its backup, and the next call's backup
\* failed and left the file alone.
C5_Witness ==
    /\ pc = "idle"
    /\ call.backup = "failed"
    /\ prev.call.ret = "True"
    /\ prev.call.backup = "ok"
    /\ file = prev.file
    /\ <<backups[Len(backups)]>> # file

\* C10: a process_filter_rules call whose header field is not one of from,
\* to, cc, subject has returned False with no backup made, so that a call
\* that returned True wrote a term whose field is one of the four.
C10_HeaderFieldGate ==
    (call.op = "process_filter_rules" /\ call.header_field \notin valid_fields)
        => (pc = "idle" /\ call.ret = "False" /\ call.backup = "")

\* C3 as claimed: a Document without '"' in any value comes back from
\* write_file and a new parser's parse_file with the same version, logging
\* and rules.
C3_RoundTripNoQuote ==
    (pc = "reparsed" /\ ~HasChar(orig, {QUOTE}))
        => (version = orig.version /\ logging = orig.logging
            /\ rules = orig.rules)

\* C3, amended: a Document without '"', line feed or carriage return in any
\* value comes back from write_file and a new parser's parse_file with the
\* same version, logging and rules.
C3_RoundTrip ==
    (pc = "reparsed" /\ ~HasChar(orig, {QUOTE, NL, CR}))
        => (version = orig.version /\ logging = orig.logging
            /\ rules = orig.rules)

\* C3: a Document of two rules with an empty version and a blank in a rule's
\* value went through the round trip.
C3_Witness ==
    /\ pc = "reparsed"
    /\ ~HasChar(orig, {QUOTE, NL, CR})
    /\ Len(orig.rules) = 2
    /\ orig.version = <<>>
    /\ \E i \in 1..2, k \in FieldNames : orig.rules[i][k] = <<" ">>

\* No value of d starts or ends with '"'.
NoEdgeQuote(d) ==
    \A v \in DocValues(d) :
        v = <<>> \/ (v[1] # QUOTE /\ v[Len(v)] # QUOTE)

TextLines == Split(orig.text, NL)

\* The line has a '=' and the text before its first '=', trimmed, is key.
HasKey(line, key) ==
    /\ IndexOf(line, EQ) # 0
    /\ Strip(SubSeq(line, 1, IndexOf(line, EQ) - 1)) = key

\* The text after the first '=' of the line, trimmed.
AfterEq(line) == Strip(SubSeq(line, IndexOf(line, EQ) + 1, Len(line)))

\* v without any of its leading and trailing '"'.
AllQuotes(v) == StripChars(v, {QUOTE})

\* v without one leading '"' and without one trailing '"', where present.
OnePair(v) ==
    LET a == IF v # <<>> /\ v[1] = QUOTE THEN Tail(v) ELSE v
    IN  IF a # <<>> /\ a[Len(a)] = QUOTE THEN SubSeq(a, 1, Len(a) - 1) ELSE a

\* The positions of the lines of ls whose key is key, in order.
KeyLines(ls, key) ==
    SelectSeq([i \in 1..Len(ls) |-> i], LAMBDA i : HasKey(ls[i], key))

\* The value, read by V, of the last line among ls[a..b] whose key is key;
\* d when there is none.
LastValue(ls, a, b, key, d, V(_)) ==
    LET js == {j \in a..b : HasKey(ls[j], key)}
    IN  IF js = {} THEN d
        ELSE V(AfterEq(ls[CHOOSE j \in js : \A i \in js : i <= j]))

\* The rule that the k-th name line of ls and the lines up to the next name
\* line make, values read by V.
RuleOfLines(ls, k, V(_)) ==
    LET nl == KeyLines(ls, s_name)
        a == nl[k] + 1
        b == IF k < Len(nl) THEN nl[k + 1] - 1 ELSE Len(ls)
    IN  [name |-> V(AfterEq(ls[nl[k]])),
         enabled |-> LastValue(ls, a, b, s_enabled, <<"y","e","s">>, V),
         type |-> LastValue(ls, a, b, s_type, <<"1","7">>, V),
         action |-> LastValue(ls, a, b, s_action,
                              <<"M","o","v","e"," ","t","o"," ",
                                "f","o","l","d","e","r">>, V),
         action_value |-> LastValue(ls, a, b, s_actionValue, <<>>, V),
         condition |-> LastValue(ls, a, b, s_condition, <<>>, V)]

RulesOfLines(ls, V(_)) ==
    [k \in 1..Len(KeyLines(ls, s_name)) |-> RuleOfLines(ls, k, V)]

\* C11: parse_content returns one rule per name line, in the order of those
\* lines; each rule has the name of its line, the default values, and on top
\* of them the values of the enabled, type, action, actionValue and
\* condition lines between its name line and the next name line or the end
\* of the text; the rule open at the end of the text is the last one.
C11_RecordBoundaries ==
    pc = "parsed" => rules = RulesOfLines(TextLines, AllQuotes)

\* C11: a text of three name lines was parsed: the first two rules took a
\* field line each, the last rule, closed by the end of the text, none.
C11_Witness ==
    /\ pc = "parsed"
    /\ Len(rules) = 3
    /\ rules[1].type = <<"3">>
    /\ rules[2].enabled = <<"n","o">>
    /\ rules[3] = DefaultRule(s_B)

\* C12: the value of every line with a '=' is the text after the first '=',
\* trimmed, without one leading '"' and without one trailing '"' where
\* present, further quotes at either end kept: version, logging and every
\* field of every rule are the values so read.
C12_OneQuotePair ==
    pc = "parsed" =>
        /\ rules = RulesOfLines(TextLines, OnePair)
        /\ version = LastValue(TextLines, 1, Len(TextLines), s_version,
                               orig.version, OnePair)
        /\ logging = LastValue(TextLines, 1, Len(TextLines), s_logging,
                               orig.logging, OnePair)

\* The lines of ls at the positions that keep holds of.
KeptLines(ls, keep(_)) ==
    LET at == SelectSeq([i \in 1..Len(ls) |-> i], keep)
    IN  [k \in 1..Len(at) |-> ls[at[k]]]

RecognizedKeys ==
    {s_version, s_logging, s_name, s_enabled, s_type, s_action,
     s_actionValue, s_condition}

\* Line i of ls is one parse_content passes over: it has no '=', or its key
\* is not a recognized one, or it is a field line with no name line before
\* it.
Ignored(ls, i) ==
    \/ IndexOf(ls[i], EQ) = 0
    \/ \A key \in RecognizedKeys : ~HasKey(ls[i], key)
    \/ /\ \E key \in RecognizedKeys \ {s_version, s_logging, s_name} :
              HasKey(ls[i], key)
       /\ \A j \in 1..(i - 1) : ~HasKey(ls[j], s_name)

\* C15: the text without its ignored lines (no '=', unrecognized key, field
\* line before the first name line) parses to the same version, logging and
\* rules; an ignored line opens no rule and closes none, so that there are
\* as many rules as name lines; parse_content returns for every text.
C15_IgnoredLines ==
    pc = "parsed" =>
        /\ [version |-> version, logging |-> logging, rules |-> rules]
               = parse_content(orig.version, orig.logging,
                     JoinLines(KeptLines(TextLines,
                                         LAMBDA i : ~Ignored(TextLines, i))))
        /\ Len(rules) = Len(KeyLines(TextLines, s_name))

\* C15: a text was parsed that has a condition line before its first name
\* line, a line without '=' and a line with an unrecognized key; its one rule
\* has no condition and took the field line after its name line.
C15_Witness ==
    /\ pc = "parsed"
    /\ Len(TextLines) >= 5
    /\ HasKey(TextLines[1], s_condition)
    /\ \E i, j \in 1..Len(TextLines) :
           /\ IndexOf(TextLines[i], EQ) = 0 /\ TextLines[i] # <<>>
           /\ HasKey(TextLines[j], <<"N","a","m","e">>)
    /\ Len(rules) = 1
    /\ rules[1].condition = <<>>
    /\ rules[1].action_value # <<>>

\* C16: version is the value of the last version line of the text, wherever
\* it stands, and is left as it was when there is none; the same for
\* logging; and the rules are the rules of the text without its version and
\* logging lines: such a line closes no rule and changes no field.
C16_GlobalKeys ==
    pc = "parsed" =>
        /\ version = LastValue(TextLines, 1, Len(TextLines), s_version,
                               orig.version, AllQuotes)
        /\ logging = LastValue(TextLines, 1, Len(TextLines), s_logging,
                               orig.logging, AllQuotes)
        /\ rules = parse_content(<<>>, <<>>,
                        JoinLines(KeptLines(TextLines,
                            LAMBDA i : /\ ~HasKey(TextLines[i], s_version)
                                       /\ ~HasKey(TextLines[i], s_logging)))
                     ).rules

\* C16: a text was parsed with two version lines inside a rule, field lines
\* of the rule before, between and after them; the second one's value stands
\* and the rule has all its fields.
C16_Witness ==
    /\ pc = "parsed"
    /\ Len(TextLines) = 5
    /\ HasKey(TextLines[3], s_version)
    /\ HasKey(TextLines[5], s_version)
    /\ AfterEq(TextLines[3]) # AfterEq(TextLines[5])
    /\ version = <<"8">>
    /\ Len(rules) = 1
    /\ rules[1].type = <<"3">>
    /\ rules[1].enabled = <<"n","o">>

\* C17: after every parse_content call, also a later one on the same parser,
\* version, logging and rules are what a new parser yields for the text of
\* that call.
C17_FreshParse ==
    pc = "parsed" =>
        [version |-> version, logging |-> logging, rules |-> rules]
            = parse_content(<<>>, <<>>, orig.text)

(***************************************************************************)
(* Properties of the text write_file writes.                               *)
(***************************************************************************)
\* key="value"
Quoted(key, value) == key \o <<"=", "\"">> \o value \o <<"\"">>

\* The six lines of a rule.
SixLines(rule) ==
    <<Quoted(<<"n","a","m","e">>, rule.name),
      Quoted(<<"e","n","a","b","l","e","d">>, rule.enabled),
      Quoted(<<"t","y","p","e">>, rule.type),
      Quoted(<<"a","c","t","i","o","n">>, rule.action),
      Quoted(<<"a","c","t","i","o","n","V","a","l","u","e">>,
             rule.action_value),
      Quoted(<<"c","o","n","d","i","t","i","o","n">>, rule.condition)>>

RECURSIVE AllSixLines(_)
AllSixLines(rs) ==
    IF rs = <<>> THEN <<>> ELSE SixLines(Head(rs)) \o AllSixLines(Tail(rs))

\* The lines of the serialized layout for the Document the parser holds.
LayoutLines ==
    (IF version # <<>>
     THEN <<Quoted(<<"v","e","r","s","i","o","n">>, version)>> ELSE <<>>)
    \o (IF logging # <<>>
        THEN <<Quoted(<<"l","o","g","g","i","n","g">>, logging)>> ELSE <<>>)
    \o AllSixLines(rules)

\* Every line of ls followed by a newline.
RECURSIVE EachWithNewline(_)
EachWithNewline(ls) ==
    IF ls = <<>> THEN <<>>
    ELSE Head(ls) \o <<"\n">> \o EachWithNewline(Tail(ls))

HeldDocument == [version |-> version, logging |-> logging, rules |-> rules]

\* C13 as claimed: the lines of the text write_file writes are, for every
\* Document, the version line iff version is not empty, the logging line
\* iff logging is not empty, and six lines a rule, each key="value", nothing
\* between them and a newline after the last; the empty Document gives the
\* empty text.
C13_LinesOfAnyDocument ==
    pc \in {"written", "rewritten"} =>
        Split(file[1], NL) = LayoutLines \o << <<>> >>

\* C13, amended: write_file writes the version item iff version is not
\* empty, the logging item iff logging is not empty, and six items a rule in
\* the order name, enabled, type, action, actionValue, condition, each as
\* key="value" followed by a newline and nothing else; the empty Document
\* gives the empty text; and when no value holds a line break these items
\* are the lines of the text.
C13_Layout ==
    pc \in {"written", "rewritten"} =>
        /\ file[1] = EachWithNewline(LayoutLines)
        /\ (version = <<>> /\ logging = <<>> /\ rules = <<>>) => file[1] = <<>>
        /\ ~HasChar(HeldDocument, {NL, CR}) =>
               Split(file[1], NL) = LayoutLines \o << <<>> >>

\* C13: a Document of two rules with an empty version, a logging value and
\* no line break in a value was written.
C13_Witness ==
    /\ pc = "written"
    /\ version = <<>>
    /\ logging # <<>>
    /\ Len(rules) = 2
    /\ ~HasChar(HeldDocument, {NL, CR})
    /\ Len(Split(file[1], NL)) = 14

(***************************************************************************)
(* Properties of the merge, continued.                                     *)
(***************************************************************************)
\* '(field,contains,value)' for the arguments of the last call.
CandidateTerm ==
    <<"(">> \o call.header_field
    \o <<",","c","o","n","t","a","i","n","s",",">> \o call.value \o <<")">>

\* C14: after add_condition_to_rule on a rule whose condition was not empty
\* the old condition is a prefix of the new one, leading operator and terms
\* as they were, and what follows it is nothing or ' OR ' and the candidate
\* term; a condition that was empty becomes 'OR ' and the candidate term,
\* the only case in which the leading operator is written.
C14_MergeKeepsPrefix ==
    (call.op = "add_condition_to_rule" /\ Target # 0) =>
        LET before == call.pre[Target].condition
            after == rules[Target].condition
        IN  IF before = <<>>
            THEN after = <<"O","R"," ">> \o CandidateTerm
            ELSE /\ SubSeq(after, 1, Len(before)) = before
                 /\ SubSeq(after, Len(before) + 1, Len(after))
                        \in {<<>>, <<" ","O","R"," ">> \o CandidateTerm}

\* C14: a term was merged into a condition that begins with AND.
C14_Witness ==
    /\ call.op = "add_condition_to_rule"
    /\ Target # 0
    /\ Len(call.pre[Target].condition) >= 4
    /\ SubSeq(call.pre[Target].condition, 1, 4) = <<"A","N","D"," ">>
    /\ Len(rules[Target].condition) > Len(call.pre[Target].condition)
    /\ SubSeq(rules[Target].condition, 1, 4) = <<"A","N","D"," ">>

(***************************************************************************)
(* Properties of an edit of a rule that exists.                            *)
(***************************************************************************)
\* rs with nothing but the condition of rule i changed into after.
OnlyConditionOf(rs, i, after) ==
    /\ Len(after) = Len(rs)
    /\ after = [rs EXCEPT ![i].condition = after[i].condition]

\* The Document in the file as the last process_filter_rules call found it:
\* the call's backup copy, read by a new parser.
DocumentFound == parse_content(<<>>, <<>>, ReadText(backups[Len(backups)]))

\* C18: when a rule named N exists, add_condition_to_rule(N, ...) changes
\* nothing but the condition of the first rule named N; and a
\* process_filter_rules call with rule name N that returned True leaves, in
\* the parser and so in the file it wrote, the version, the logging value
\* and the rules of the file it found, but for the condition of the first
\* rule named N, whatever the destination folder given.
C18_OneConditionOnly ==
    /\ (/\ call.op = "process_filter_rules"
        /\ pc \in {"write", "idle"}
        /\ Target # 0)
           => OnlyConditionOf(call.pre, Target, rules)
    /\ (/\ call.op = "process_filter_rules"
        /\ pc = "idle"
        /\ call.ret = "True"
        /\ Target # 0)
           => /\ FileAt(call.file_path) = <<write_file(version, logging, rules)>>
              /\ version = DocumentFound.version
              /\ logging = DocumentFound.logging
              /\ find_rule_by_name(DocumentFound.rules, call.rule_name)
                     = Target
              /\ OnlyConditionOf(DocumentFound.rules, Target, rules)
====
